---- MODULE Spec2Model ----
(***************************************************************************)
(* The candle data-lifecycle engine of the live candlestick chart:         *)
(* services/binance.ts (bar transformer, range calculator, paginated       *)
(* history fetch) and hooks/useKlines.ts (merge rule, history loading with *)
(* request epochs, bootstrap effect, WebSocket lifecycle).                 *)
(*                                                                         *)
(* JavaScript runs the handlers one at a time: every action below is one   *)
(* task of the event loop together with the microtasks it triggers.        *)
(***************************************************************************)
EXTENDS Integers, Sequences, FiniteSets, TLC

(***************************************************************************)
(* Bounds of the model.                                                    *)
(***************************************************************************)
\* bar slots of the provider's time grid: slot k opens at k * interval
MaxSlot == 3
\* loadHistory calls (request epochs): one by the bootstrap of every effect
\* run (mount and each configuration change), one by every manual refresh
MaxRequests == 2
\* reconnect timers that are let fire
MaxReconnects == 1
\* reconnect timers that are let fire where the connection is followed on
\* its own (SpecReconnect)
MaxFailures == 7
\* page requests of one history fetch among which one may be answered with
\* a non-success status (SpecFetch)
MaxPage == 3
\* binance.ts:25 MAX_PER_REQUEST (1500), scaled down so that a history of
\* three bars needs more than one page
MAX_PER_REQUEST == 2

(***************************************************************************)
(* Program constants and JavaScript values.                                *)
(***************************************************************************)
MAX_CANDLES_CAP == 50000
\* null / undefined of a ref, of a state slot or of a message field
NULL == 0
\* the number NaN: every comparison with it is false
NaN == -1
\* the number Infinity (HistoryPreset.minutes of "Max available")
Infinity == -2

Min(a, b) == IF a < b THEN a ELSE b

\* Math.ceil(a / b) for a >= 0, b > 0
CeilDiv(a, b) == (a + b - 1) \div b

\* JavaScript's  a > b,  a < b  and  a === b  on numbers
JsGt(a, b) == a # NaN /\ b # NaN /\ a > b
JsLt(a, b) == a # NaN /\ b # NaN /\ a < b
JsEq(a, b) == a # NaN /\ b # NaN /\ a = b

isFinite(x) == x # Infinity /\ x # NaN

intervalToMinutes(interval) ==
  CASE interval = "1m" -> 1
    [] interval = "5m" -> 5
    [] interval = "15m" -> 15
    [] interval = "1h" -> 60
    [] interval = "4h" -> 240
    [] interval = "1d" -> 1440
    [] OTHER -> NULL

\* intervalToMinutes[interval] ?? 1
MinutesOf(interval) ==
  IF intervalToMinutes(interval) = NULL THEN 1 ELSE intervalToMinutes(interval)

candlesNeededForPreset(preset, interval) ==
  IF ~isFinite(preset.minutes) THEN Infinity
  ELSE CeilDiv(preset.minutes, MinutesOf(interval))

\* the cap test with >= in place of >
isPresetCapped_AtCap(preset, interval) ==
  LET needed == candlesNeededForPreset(preset, interval)
  IN needed = Infinity \/ needed >= MAX_CANDLES_CAP

\* needed > MAX_CANDLES_CAP, which is true of Infinity
isPresetCapped(preset, interval) ==
  LET needed == candlesNeededForPreset(preset, interval)
  IN needed = Infinity \/ needed > MAX_CANDLES_CAP

\* the range calculator rounding down
maxCandlesForPreset_Floor(preset, interval) ==
  IF ~isFinite(preset.minutes) THEN MAX_CANDLES_CAP
  ELSE Min(preset.minutes \div MinutesOf(interval), MAX_CANDLES_CAP)

maxCandlesForPreset(preset, interval) ==
  IF ~isFinite(preset.minutes) THEN MAX_CANDLES_CAP
  ELSE Min(CeilDiv(preset.minutes, MinutesOf(interval)), MAX_CANDLES_CAP)

(***************************************************************************)
(* Bar transformer.  A raw record is <<openTimeMs, open, high, low,        *)
(* close>>, the prices being strings.  The time of a candle is the number  *)
(* row[0] / 1000; the model holds it exactly, as a fixed-point value       *)
(* counted in thousandths of a second (so 60.5 s is 60500).                *)
(***************************************************************************)
parseFloat(s) ==
  CASE s = "1" -> 1
    [] s = "2" -> 2
    [] OTHER -> NaN

\* row[0] / 1000, in thousandths; undefined / 1000 is NaN
DivideBy1000(ms) == IF ms = NULL THEN NaN ELSE ms

toCandle(row) ==
  [time |-> DivideBy1000(row[1]),
   open |-> parseFloat(row[2]),
   high |-> parseFloat(row[3]),
   low |-> parseFloat(row[4]),
   close |-> parseFloat(row[5])]

\* The model also remembers where a bar came from: the effect run (session)
\* that asked for it, and whether a history fetch or a connection ("live")
\* delivered it.
Tag(candle, origin, via) ==
  [time |-> candle.time, open |-> candle.open, high |-> candle.high,
   low |-> candle.low, close |-> candle.close, origin |-> origin, via |-> via]

(***************************************************************************)
(* Merge rule: the updater that applyIncomingCandle hands to setCandles.   *)
(***************************************************************************)
\* arr.slice(-n): the last n elements; slice(-0) is slice(0), the whole array
SliceLast(arr, n) ==
  IF n = 0 \/ n >= Len(arr) THEN arr
  ELSE SubSeq(arr, Len(arr) - n + 1, Len(arr))

\* arr.slice(0, -1)
DropLast(arr) == SubSeq(arr, 1, Len(arr) - 1)

\* the merge rule without the trim to the cap
applyIncomingCandle_NoTrim(prev, candle, cap) ==
  IF Len(prev) = 0 \/ JsGt(candle.time, prev[Len(prev)].time)
    THEN Append(prev, candle)
  ELSE IF JsEq(prev[Len(prev)].time, candle.time)
    THEN Append(DropLast(prev), candle)
  ELSE prev

\* the merge rule with an older bar replacing the last one
applyIncomingCandle_StaleReplaces(prev, candle, cap) ==
  IF Len(prev) = 0 \/ JsGt(candle.time, prev[Len(prev)].time)
    THEN SliceLast(Append(prev, candle), cap)
  ELSE Append(DropLast(prev), candle)

\* the merge rule appending a bar of the last bar's time (>= for >)
applyIncomingCandle_AppendsEqual(prev, candle, cap) ==
  IF Len(prev) = 0 \/ JsGt(candle.time, prev[Len(prev)].time)
     \/ JsEq(candle.time, prev[Len(prev)].time)
    THEN SliceLast(Append(prev, candle), cap)
  ELSE prev

applyIncomingCandle(prev, candle, cap) ==
  IF Len(prev) = 0 \/ JsGt(candle.time, prev[Len(prev)].time)
    THEN SliceLast(Append(prev, candle), cap)
  ELSE IF JsEq(prev[Len(prev)].time, candle.time)
    THEN Append(DropLast(prev), candle)
  ELSE prev

(***************************************************************************)
(* History endpoint and the paginated history fetch.                       *)
(***************************************************************************)
\* buildRestUrl: the query of one page request; endTime is sent only when
\* it is truthy (if (endTime) params.append(...))
buildRestUrl(symbol, interval, limit, endTime) ==
  [symbol |-> symbol, interval |-> interval, limit |-> limit,
   endTime |-> IF endTime # 0 THEN endTime ELSE NULL]

\* milliseconds between the opens of two bars of an interval
IntervalMs(interval) == MinutesOf(interval) * 60000

\* The provider holds the bars of slots lo..hi of the requested symbol and
\* interval, and answers a page request with the newest `limit` of them
\* that open at or before endTime, oldest first.
ProviderRow(interval, k) == <<k * IntervalMs(interval), "1", "1", "1", "1">>

\* A market may say by how many milliseconds its bars open after the
\* multiples of the interval (shift); without it they open on the multiples.
MarketShift(market) == IF "shift" \in DOMAIN market THEN market.shift ELSE 0

ProviderPage(market, url) ==
  LET ms == IntervalMs(url.interval)
      shift == MarketShift(market)
      top == IF url.endTime = NULL THEN market.hi
             ELSE Min(market.hi, (url.endTime - shift) \div ms)
      n == IF top < market.lo THEN 0 ELSE Min(url.limit, top - market.lo + 1)
  IN [i \in 1..n |->
        LET row == ProviderRow(url.interval, top - n + i)
        IN <<row[1] + shift, row[2], row[3], row[4], row[5]>>]

\* collected.sort((a, b) => Number(a.time) - Number(b.time)): insertion
\* into an ascending sequence, equal times keeping their order
\* a sort that leaves the bars in the order collected
InsertByTime_Append(sorted, c) == Append(sorted, c)

RECURSIVE InsertByTime(_, _)
InsertByTime(sorted, c) ==
  IF Len(sorted) = 0 \/ sorted[Len(sorted)].time <= c.time
    THEN Append(sorted, c)
  ELSE Append(InsertByTime(DropLast(sorted), c), sorted[Len(sorted)])

RECURSIVE SortByTime(_)
SortByTime(arr) ==
  IF Len(arr) = 0 THEN arr
  ELSE InsertByTime(SortByTime(DropLast(arr)), arr[Len(arr)])

\* the while loop of fetchHistorical; every request succeeds (res.ok)
RECURSIVE FetchLoop(_, _, _, _, _, _, _)
FetchLoop(market, sym, intv, targetCandles, targetStartMs, endTime, collected) ==
  IF ~(Len(collected) < targetCandles) THEN collected
  ELSE
    LET remaining == targetCandles - Len(collected)
        limit == Min(MAX_PER_REQUEST, remaining)
        payload == ProviderPage(market, buildRestUrl(sym, intv, limit, endTime))
        chunk == [i \in 1..Len(payload) |-> toCandle(payload[i])]
        firstOpen == payload[1][1]
    IN IF Len(payload) = 0 THEN collected
       ELSE IF targetStartMs # NULL /\ targetStartMs # 0
                /\ firstOpen <= targetStartMs
         THEN collected \o chunk
       ELSE IF Len(chunk) < limit THEN collected \o chunk
       ELSE FetchLoop(market, sym, intv, targetCandles, targetStartMs,
                      firstOpen - 1, collected \o chunk)

\* fetchHistorical returning the pages as collected, newest chunk first
fetchHistorical_NoSort(market, sym, intv, preset, now) ==
  LET targetCandles == maxCandlesForPreset(preset, intv)
      targetStartMs == IF isFinite(preset.minutes)
                         THEN now - preset.minutes * 60 * 1000
                         ELSE NULL
  IN FetchLoop(market, sym, intv, targetCandles, targetStartMs, now, <<>>)

\* fetchHistorical when no request fails and the signal is not observed;
\* now is Date.now() at the call
fetchHistorical(market, sym, intv, preset, now) ==
  LET targetCandles == maxCandlesForPreset(preset, intv)
      targetStartMs == IF isFinite(preset.minutes)
                         THEN now - preset.minutes * 60 * 1000
                         ELSE NULL
  IN SortByTime(FetchLoop(market, sym, intv, targetCandles, targetStartMs,
                          now, <<>>))

(***************************************************************************)
(* fetchHistorical request by request: the page requests it issues, in     *)
(* order, and how it ends when the request number failAt is answered with  *)
(* a non-success status (failAt = 0: every request succeeds).              *)
(***************************************************************************)
\* the loop of fetchHistorical with limit = MAX_PER_REQUEST in every request
RECURSIVE FetchRun_FullPages(_, _, _, _, _, _, _, _, _)
FetchRun_FullPages(market, sym, intv, targetCandles, targetStartMs, endTime, collected, urls, failAt) ==
  IF ~(Len(collected) < targetCandles)
    THEN [status |-> "ok", urls |-> urls, collected |-> collected]
  ELSE
    LET limit == MAX_PER_REQUEST
        url == buildRestUrl(sym, intv, limit, endTime)
        issued == Append(urls, url)
        payload == ProviderPage(market, url)
        chunk == [i \in 1..Len(payload) |-> toCandle(payload[i])]
        firstOpen == payload[1][1]
    IN IF Len(issued) = failAt
         THEN [status |-> "HttpError", urls |-> issued, collected |-> collected]
       ELSE IF Len(payload) = 0
         THEN [status |-> "ok", urls |-> issued, collected |-> collected]
       ELSE IF (targetStartMs # NULL /\ targetStartMs # 0
                 /\ firstOpen <= targetStartMs)
               \/ Len(chunk) < limit
         THEN [status |-> "ok", urls |-> issued,
               collected |-> collected \o chunk]
       ELSE FetchRun_FullPages(market, sym, intv, targetCandles,
                               targetStartMs, firstOpen - 1,
                               collected \o chunk, issued, failAt)

RECURSIVE FetchRun(_, _, _, _, _, _, _, _, _)
FetchRun(market, sym, intv, targetCandles, targetStartMs, endTime, collected, urls, failAt) ==
  IF ~(Len(collected) < targetCandles)
    THEN [status |-> "ok", urls |-> urls, collected |-> collected]
  ELSE
    LET remaining == targetCandles - Len(collected)
        limit == Min(MAX_PER_REQUEST, remaining)
        url == buildRestUrl(sym, intv, limit, endTime)
        issued == Append(urls, url)
        payload == ProviderPage(market, url)
        chunk == [i \in 1..Len(payload) |-> toCandle(payload[i])]
        firstOpen == payload[1][1]
    IN IF Len(issued) = failAt
         \* if (!res.ok) throw new Error(...)
         THEN [status |-> "HttpError", urls |-> issued, collected |-> collected]
       ELSE IF Len(payload) = 0
         THEN [status |-> "ok", urls |-> issued, collected |-> collected]
       ELSE IF (targetStartMs # NULL /\ targetStartMs # 0
                 /\ firstOpen <= targetStartMs)
               \/ Len(chunk) < limit
         THEN [status |-> "ok", urls |-> issued,
               collected |-> collected \o chunk]
       ELSE FetchRun(market, sym, intv, targetCandles, targetStartMs,
                     firstOpen - 1, collected \o chunk, issued, failAt)

\* fetchHistorical with every request asking for a full page
fetchHistoricalRun_FullPages(market, sym, intv, preset, now, failAt) ==
  LET targetCandles == maxCandlesForPreset(preset, intv)
      targetStartMs == IF isFinite(preset.minutes)
                         THEN now - preset.minutes * 60 * 1000
                         ELSE NULL
      run == FetchRun_FullPages(market, sym, intv, targetCandles,
                                targetStartMs, now, <<>>, <<>>, failAt)
  IN [status |-> run.status, urls |-> run.urls, target |-> targetCandles,
      candles |-> IF run.status = "ok" THEN SortByTime(run.collected)
                  ELSE <<>>]

fetchHistoricalRun(market, sym, intv, preset, now, failAt) ==
  LET targetCandles == maxCandlesForPreset(preset, intv)
      targetStartMs == IF isFinite(preset.minutes)
                         THEN now - preset.minutes * 60 * 1000
                         ELSE NULL
      run == FetchRun(market, sym, intv, targetCandles, targetStartMs, now,
                      <<>>, <<>>, failAt)
  IN [status |-> run.status, urls |-> run.urls, target |-> targetCandles,
      candles |-> IF run.status = "ok" THEN SortByTime(run.collected)
                  ELSE <<>>]

(***************************************************************************)
(* The hook useKlines.                                                     *)
(***************************************************************************)
VARIABLES
  props,              \* the hook's arguments: symbol, interval, historyPreset
  effect,             \* index of the current run of the bootstrap effect
  effects,            \* per effect run: its closure (cancelled, attempts, args)
  candles,            \* useState: the Series
  historyLoading,     \* useState
  error,              \* useState: "null" or the message
  connection,         \* useState: ConnectionState
  nextRetrySec,       \* useState: NULL or seconds
  lastUpdated,        \* useState: who called setLastUpdated(new Date()) last
  wsRef,              \* useRef: NULL or a socket
  reconnectTimerRef,  \* useRef: NULL or a timer handle
  historyAbortRef,    \* useRef: NULL or the AbortController of a request
  requestIdRef,       \* useRef: the request epoch
  fetches,            \* loadHistory calls awaiting fetchHistorical
  sockets,            \* WebSockets whose events the hook still listens to
  timers,             \* pending setTimeout(connect, delay) timers
  reconnects,         \* reconnect timers that have fired
  failures,           \* closes of the session's connections since one opened
  chart,              \* the refs of PriceChart and what its series displays
  ev                  \* the handler that ran last and what it did

vars == <<props, effect, effects, candles, historyLoading, error, connection,
          nextRetrySec, lastUpdated, wsRef, reconnectTimerRef,
          historyAbortRef, requestIdRef, fetches, sockets, timers, reconnects,
          failures, chart, ev>>

\* the configurations the user can select
PropsSet ==
  { [symbol |-> "BTCUSDT", interval |-> "1m",
     historyPreset |-> [label |-> "Last 3 minutes", minutes |-> 3]],
    [symbol |-> "ETHUSDT", interval |-> "5m",
     historyPreset |-> [label |-> "Last 10 minutes", minutes |-> 10]] }

InitialProps ==
  [symbol |-> "BTCUSDT", interval |-> "1m",
   historyPreset |-> [label |-> "Last 3 minutes", minutes |-> 3]]

\* const cap = useMemo(() => maxCandlesForPreset(historyPreset, interval))
cap(p) == maxCandlesForPreset(p.historyPreset, p.interval)

\* a function without the key k
Without(f, k) == [x \in DOMAIN f \ {k} |-> f[x]]

\* a function with the key k set to v
With(f, k, v) == [x \in DOMAIN f \cup {k} |-> IF x = k THEN v ELSE f[x]]

(***************************************************************************)
(* The refs and the objects they point to, as one value R that the         *)
(* synchronous pieces of the handlers transform.                           *)
(***************************************************************************)
Refs ==
  [wsRef |-> wsRef, reconnectTimerRef |-> reconnectTimerRef,
   historyAbortRef |-> historyAbortRef, requestIdRef |-> requestIdRef,
   fetches |-> fetches, sockets |-> sockets, timers |-> timers]

\* controller.abort(): the signal of that request is aborted; a request
\* that has settled is not in fetches and nothing happens
abort(fs, ctl) ==
  [id \in DOMAIN fs |->
     IF id = ctl THEN [fs[id] EXCEPT !.aborted = TRUE] ELSE fs[id]]

\* ws.onopen = ws.onmessage = ws.onerror = ws.onclose = null; ws.close():
\* no event of that socket reaches the hook any more, so the model lets go
\* of it; a socket that has closed already is not in ss and nothing happens
DetachAndClose(ss, ws) == [id \in DOMAIN ss \ {ws} |-> ss[id]]

\* cleanup() that forgets the socket without detaching its handlers or
\* closing it
cleanup_KeepsSocket(R) ==
  [R EXCEPT
     !.fetches = abort(R.fetches, R.historyAbortRef),
     !.historyAbortRef = NULL,
     !.timers = IF R.reconnectTimerRef # NULL
                  THEN Without(R.timers, R.reconnectTimerRef) ELSE R.timers,
     !.reconnectTimerRef = NULL,
     !.wsRef = NULL]

\* cleanup() closing the connection with its handlers still attached
cleanup_ClosesAttached(R) ==
  [R EXCEPT
     !.fetches = abort(R.fetches, R.historyAbortRef),
     !.historyAbortRef = NULL,
     !.timers = IF R.reconnectTimerRef # NULL
                  THEN Without(R.timers, R.reconnectTimerRef) ELSE R.timers,
     !.reconnectTimerRef = NULL,
     !.sockets = IF R.wsRef \in DOMAIN R.sockets
                   THEN [R.sockets EXCEPT ![R.wsRef].state = "closing"]
                 ELSE R.sockets,
     !.wsRef = NULL]

\* cleanup() clearing the timer and leaving its handle in the ref
cleanup_KeepsTimerRef(R) ==
  [R EXCEPT
     !.fetches = abort(R.fetches, R.historyAbortRef),
     !.historyAbortRef = NULL,
     !.timers = IF R.reconnectTimerRef # NULL
                  THEN Without(R.timers, R.reconnectTimerRef) ELSE R.timers,
     !.sockets = IF R.wsRef # NULL
                   THEN DetachAndClose(R.sockets, R.wsRef) ELSE R.sockets,
     !.wsRef = NULL]

cleanup(R) ==
  [R EXCEPT
     !.fetches = abort(R.fetches, R.historyAbortRef),
     !.historyAbortRef = NULL,
     !.timers = IF R.reconnectTimerRef # NULL
                  THEN Without(R.timers, R.reconnectTimerRef) ELSE R.timers,
     !.reconnectTimerRef = NULL,
     !.sockets = IF R.wsRef # NULL
                   THEN DetachAndClose(R.sockets, R.wsRef) ELSE R.sockets,
     !.wsRef = NULL]

\* loadHistory up to its await: a new epoch, the request in flight before
\* it aborted, a new controller, and fetchHistorical called.  `caller` is
\* who awaits the returned promise: the bootstrap of an effect, or nobody
\* (refreshHistory).
loadHistoryCall(R, e, caller, sym, intv, preset) ==
  LET requestId == R.requestIdRef + 1
  IN [R EXCEPT
        !.requestIdRef = requestId,
        !.historyAbortRef = requestId,
        !.fetches = With(abort(R.fetches, R.historyAbortRef), requestId,
                         [sym |-> sym, intv |-> intv, preset |-> preset,
                          aborted |-> FALSE, effect |-> e, caller |-> caller])]

\* loadHistory without its epoch checks
isActiveRequest_Always(requestId, current) == TRUE

\* requestId !== requestIdRef.current, negated: is this still the active
\* request?
isActiveRequest(requestId, current) == requestId = current

\* the identity of a new object (a WebSocket, a timer handle): one that no
\* ref holds and no live object has
Fresh(R) ==
  CHOOSE n \in 1..(Cardinality(DOMAIN R.sockets \cup DOMAIN R.timers) + 3) :
    /\ n \notin DOMAIN R.sockets \cup DOMAIN R.timers
    /\ n \notin {R.wsRef, R.reconnectTimerRef}
    /\ \A m \in 1..(n - 1) :
         m \in DOMAIN R.sockets \cup DOMAIN R.timers
                \cup {R.wsRef, R.reconnectTimerRef}

\* connect() of effect run e, when not cancelled: a new WebSocket
connectCall(R, e) ==
  [R EXCEPT
     !.sockets = With(R.sockets, Fresh(R),
                      [state |-> "connecting", effect |-> e]),
     !.wsRef = Fresh(R)]

\* the refs and objects take the values of R
SetRefs(R) ==
  /\ wsRef' = R.wsRef
  /\ reconnectTimerRef' = R.reconnectTimerRef
  /\ historyAbortRef' = R.historyAbortRef
  /\ requestIdRef' = R.requestIdRef
  /\ fetches' = R.fetches
  /\ sockets' = R.sockets
  /\ timers' = R.timers

EmptyFn == [x \in {} |-> NULL]

\* the hook used on its own: no PriceChart is rendered from its Series
NoChart == [mounted |-> FALSE]

\* what a call of cleanup() has to release: the request in flight, the
\* pending timer, the connection
Held(R) ==
  (IF R.historyAbortRef \in DOMAIN R.fetches
      /\ ~R.fetches[R.historyAbortRef].aborted THEN {"fetch"} ELSE {})
  \cup (IF R.reconnectTimerRef \in DOMAIN R.timers THEN {"timer"} ELSE {})
  \cup (IF R.wsRef \in DOMAIN R.sockets THEN {"socket"} ELSE {})

\* the component is mounted until the cleanup of its last effect run has
\* run without the effect running again
mounted == ~effects[effect].cancelled

Closure(p) == [cancelled |-> FALSE, attempts |-> 0, args |-> p]

\* The state after the first commit: the effect has run bootstrap() up to
\* its await of loadHistory.
Init ==
  /\ props = InitialProps
  /\ effect = 0
  /\ effects = [e \in {0} |-> Closure(InitialProps)]
  /\ candles = <<>>
  /\ historyLoading = TRUE
  /\ error = "null"
  /\ connection = "connecting"
  /\ nextRetrySec = NULL
  /\ lastUpdated = [by |-> "nobody"]
  /\ wsRef = NULL
  /\ reconnectTimerRef = NULL
  /\ historyAbortRef = 1
  /\ requestIdRef = 1
  /\ fetches = [id \in {1} |->
                  [sym |-> InitialProps.symbol, intv |-> InitialProps.interval,
                   preset |-> InitialProps.historyPreset, aborted |-> FALSE,
                   effect |-> 0, caller |-> "bootstrap"]]
  /\ sockets = EmptyFn
  /\ timers = EmptyFn
  /\ reconnects = 0
  /\ failures = 0
  /\ chart = NoChart
  /\ ev = [op |-> "mount"]

(***************************************************************************)
(* The arguments change: React runs the cleanup of the previous effect     *)
(* run, then the effect again, which calls bootstrap().                    *)
(***************************************************************************)
ChangeConfig(p) ==
  /\ mounted
  /\ requestIdRef < MaxRequests
  /\ p # props
  /\ LET e == effect + 1
         \* return () => { cancelled = true; cleanup(); setNextRetrySec(null) }
         R1 == cleanup(Refs)
         \* bootstrap(): cleanup(); setCandles([]); setConnection(...);
         \* await loadHistory(symbol, interval, historyPreset)
         R2 == loadHistoryCall(cleanup(R1), e, "bootstrap",
                               p.symbol, p.interval, p.historyPreset)
     IN /\ SetRefs(R2)
        /\ props' = p
        /\ effect' = e
        /\ effects' = With([effects EXCEPT ![effect].cancelled = TRUE],
                           e, Closure(p))
        /\ nextRetrySec' = NULL
        /\ candles' = <<>>
        /\ connection' = "connecting"
        /\ historyLoading' = TRUE
        /\ error' = "null"
        /\ failures' = 0
        /\ ev' = [op |-> "config", released |-> Held(Refs)]
        /\ UNCHANGED <<lastUpdated, reconnects, chart>>

(***************************************************************************)
(* refreshHistory: loadHistory(symbol, interval, historyPreset).           *)
(***************************************************************************)
RefreshHistory ==
  /\ mounted
  /\ requestIdRef < MaxRequests
  /\ SetRefs(loadHistoryCall(Refs, effect, "refresh", props.symbol,
                             props.interval, props.historyPreset))
  /\ historyLoading' = TRUE
  /\ error' = "null"
  /\ ev' = [op |-> "refresh"]
  /\ UNCHANGED <<props, effect, effects, candles, connection, nextRetrySec,
                 lastUpdated, reconnects, failures, chart>>

(***************************************************************************)
(* A fetchHistorical promise settles and loadHistory runs to its end; when *)
(* bootstrap() awaits that loadHistory, it goes on to  if (!cancelled)     *)
(* connect().  fetch rejects with an AbortError once its signal is         *)
(* aborted; a response it had already taken in may still be delivered,     *)
(* which is what the epoch check of loadHistory is for.  React drops the   *)
(* state updates of a component that has unmounted.                        *)
(***************************************************************************)
Outcomes(f) == IF f.aborted THEN {"AbortError", "ok"} ELSE {"ok", "HttpError"}

\* what the provider can hold: bars of slots lo..hi, none when lo > hi
Markets == {m \in [lo : 1..(MaxSlot + 1), hi : 1..MaxSlot] : m.lo <= m.hi + 1}

\* a fetch that takes every bar the provider holds, whatever the range
Loaded_WholeMarket(f, market) ==
  LET arr == fetchHistorical(market, f.sym, f.intv,
                             [label |-> "Max available", minutes |-> Infinity],
                             market.hi * IntervalMs(f.intv))
  IN [i \in 1..Len(arr) |-> Tag(arr[i], f.effect, "history")]

\* the candles fetchHistorical resolves with, asked at the open of slot hi
Loaded(f, market) ==
  LET arr == fetchHistorical(market, f.sym, f.intv, f.preset,
                             market.hi * IntervalMs(f.intv))
  IN [i \in 1..Len(arr) |-> Tag(arr[i], f.effect, "history")]

\* will bootstrap() go on to connect() when this loadHistory has returned?
BootstrapConnects(id) ==
  fetches[id].caller = "bootstrap" /\ ~effects[fetches[id].effect].cancelled

\* loadHistory emptying the Series when the fetch has failed
LoadHistoryEnd_ClearsOnError(id, outcome, loaded, event) ==
  LET f == fetches[id]
      active == isActiveRequest(id, requestIdRef)
      applies == outcome = "ok" /\ active /\ mounted
      connects == BootstrapConnects(id)
      R0 == [Refs EXCEPT !.fetches = Without(fetches, id)]
  IN /\ SetRefs(IF connects THEN connectCall(R0, f.effect) ELSE R0)
     /\ candles' = IF applies THEN loaded
                   ELSE IF outcome = "HttpError" THEN <<>> ELSE candles
     /\ lastUpdated' = IF applies THEN [by |-> "history"]
                       ELSE lastUpdated
     /\ error' = IF outcome = "HttpError" /\ mounted
                   THEN "Unable to fetch history (500)" ELSE error
     /\ historyLoading' = IF active /\ mounted THEN FALSE
                          ELSE historyLoading
     /\ connection' = IF connects THEN "connecting" ELSE connection
     /\ ev' = event
     /\ UNCHANGED <<props, effect, effects, nextRetrySec, reconnects,
                    failures, chart>>

\* loadHistory whose catch does not tell an AbortError from another error
LoadHistoryEnd_ReportsAbort(id, outcome, loaded, event) ==
  LET f == fetches[id]
      active == isActiveRequest(id, requestIdRef)
      applies == outcome = "ok" /\ active /\ mounted
      connects == BootstrapConnects(id)
      R0 == [Refs EXCEPT !.fetches = Without(fetches, id)]
  IN /\ SetRefs(IF connects THEN connectCall(R0, f.effect) ELSE R0)
     /\ candles' = IF applies THEN loaded ELSE candles
     /\ lastUpdated' = IF applies THEN [by |-> "history"]
                       ELSE lastUpdated
     /\ error' = IF outcome = "HttpError" /\ mounted
                   THEN "Unable to fetch history (500)"
                 ELSE IF outcome = "AbortError" /\ mounted
                   THEN "The operation was aborted."
                 ELSE error
     /\ historyLoading' = IF active /\ mounted THEN FALSE
                          ELSE historyLoading
     /\ connection' = IF connects THEN "connecting" ELSE connection
     /\ ev' = event
     /\ UNCHANGED <<props, effect, effects, nextRetrySec, reconnects,
                    failures, chart>>

\* loadHistory from the end of its await to its return, and the
\* continuation of bootstrap() when bootstrap awaits it; `loaded` is what
\* fetchHistorical resolved with when outcome is "ok", `event` what the
\* model notes of the step
LoadHistoryEnd(id, outcome, loaded, event) ==
  LET f == fetches[id]
      active == isActiveRequest(id, requestIdRef)
      applies == outcome = "ok" /\ active /\ mounted
      connects == BootstrapConnects(id)
      R0 == [Refs EXCEPT !.fetches = Without(fetches, id)]
  IN /\ SetRefs(IF connects THEN connectCall(R0, f.effect) ELSE R0)
     /\ candles' = IF applies THEN loaded ELSE candles
     /\ lastUpdated' = IF applies THEN [by |-> "history"]
                       ELSE lastUpdated
     /\ error' = IF outcome = "HttpError" /\ mounted
                   THEN "Unable to fetch history (500)" ELSE error
     /\ historyLoading' = IF active /\ mounted THEN FALSE
                          ELSE historyLoading
     /\ connection' = IF connects THEN "connecting" ELSE connection
     /\ ev' = event
     /\ UNCHANGED <<props, effect, effects, nextRetrySec, reconnects,
                    failures, chart>>

FetchSettle(id, outcome, market) ==
  /\ id \in DOMAIN fetches
  /\ outcome \in Outcomes(fetches[id])
  /\ LoadHistoryEnd(id, outcome, Loaded(fetches[id], market),
                    [op |-> "settle", id |-> id, outcome |-> outcome,
                     effect |-> fetches[id].effect,
                     connected |-> BootstrapConnects(id),
                     args |-> [symbol |-> fetches[id].sym,
                               interval |-> fetches[id].intv,
                               historyPreset |-> fetches[id].preset]])

(***************************************************************************)
(* WebSocket events, each running the handler that connect() attached.     *)
(***************************************************************************)
\* ws.onopen without the reset of the attempt counter
SocketOpen_KeepsAttempts(ws) ==
  /\ ws \in DOMAIN sockets
  /\ sockets[ws].state = "connecting"
  /\ sockets' = [sockets EXCEPT ![ws].state = "open"]
  /\ LET e == sockets[ws].effect
         runs == ~effects[e].cancelled
     IN /\ effects' = effects
        /\ connection' = IF runs THEN "online" ELSE connection
        /\ nextRetrySec' = IF runs THEN NULL ELSE nextRetrySec
  /\ failures' = 0
  /\ ev' = [op |-> "open", after |-> failures]
  /\ UNCHANGED <<props, effect, candles, historyLoading, error, lastUpdated,
                 wsRef, reconnectTimerRef, historyAbortRef, requestIdRef,
                 fetches, timers, reconnects, chart>>

\* ws.onopen
SocketOpen(ws) ==
  /\ ws \in DOMAIN sockets
  /\ sockets[ws].state = "connecting"
  /\ sockets' = [sockets EXCEPT ![ws].state = "open"]
  /\ LET e == sockets[ws].effect
         runs == ~effects[e].cancelled
     IN /\ effects' = IF runs THEN [effects EXCEPT ![e].attempts = 0]
                      ELSE effects
        /\ connection' = IF runs THEN "online" ELSE connection
        /\ nextRetrySec' = IF runs THEN NULL ELSE nextRetrySec
  /\ failures' = 0
  /\ ev' = [op |-> "open", after |-> failures]
  /\ UNCHANGED <<props, effect, candles, historyLoading, error, lastUpdated,
                 wsRef, reconnectTimerRef, historyAbortRef, requestIdRef,
                 fetches, timers, reconnects, chart>>

\* what a connection of an interval can deliver: text that is not JSON, a
\* JSON value without k, or a kline k whose start time may be missing
Messages(intv) ==
  {[kind |-> "garbage"], [kind |-> "nok"]}
  \cup {[kind |-> "kline", k |-> k] :
          k \in [t : {n * IntervalMs(intv) : n \in 1..MaxSlot} \cup {NULL},
                 p : {"2"}, x : BOOLEAN]}

\* which branch of the merge rule a candle takes
MergeBranch(prev, candle) ==
  IF Len(prev) = 0 \/ JsGt(candle.time, prev[Len(prev)].time) THEN "append"
  ELSE IF JsEq(prev[Len(prev)].time, candle.time) THEN "replace"
  ELSE "stale"

\* ws.onmessage
SocketMessage(ws, msg) ==
  /\ ws \in DOMAIN sockets
  /\ sockets[ws].state = "open"
  /\ msg \in Messages(effects[sockets[ws].effect].args.interval)
  /\ LET e == sockets[ws].effect
         merges == msg.kind = "kline"
         candle == Tag(toCandle(<<msg.k.t, msg.k.p, msg.k.p, msg.k.p, msg.k.p>>),
                       e, "live")
         merged == applyIncomingCandle(candles, candle, cap(effects[e].args))
     IN /\ candles' = IF merges THEN merged ELSE candles
        /\ lastUpdated' = IF merges /\ msg.k.x THEN [by |-> "live"]
                          ELSE lastUpdated
        /\ ev' = IF merges
                   THEN [op |-> "message", how |-> MergeBranch(candles, candle),
                         trimmed |-> Len(merged) < Len(candles) + 1,
                         malformed |-> msg.k.t = NULL]
                 ELSE [op |-> "message", how |-> "dropped", trimmed |-> FALSE,
                       malformed |-> TRUE]
  /\ UNCHANGED <<props, effect, effects, historyLoading, error, connection,
                 nextRetrySec, wsRef, reconnectTimerRef, historyAbortRef,
                 requestIdRef, fetches, sockets, timers, reconnects,
                 failures, chart>>

\* ws.onerror scheduling a reconnect of its own
SocketError_Schedules(ws) ==
  /\ ws \in DOMAIN sockets
  /\ sockets[ws].state \in {"connecting", "open"}
  /\ sockets' = [sockets EXCEPT ![ws].state = "closing"]
  /\ connection' = "error"
  /\ timers' = With(timers, Fresh(Refs),
                    [effect |-> sockets[ws].effect, delay |-> 2000])
  /\ reconnectTimerRef' = Fresh(Refs)
  /\ ev' = [op |-> "error"]
  /\ UNCHANGED <<props, effect, effects, candles, historyLoading, error,
                 nextRetrySec, lastUpdated, wsRef, historyAbortRef,
                 requestIdRef, fetches, reconnects, failures, chart>>

\* ws.onerror: setConnection('error'); ws.close()
SocketError(ws) ==
  /\ ws \in DOMAIN sockets
  /\ sockets[ws].state \in {"connecting", "open"}
  /\ sockets' = [sockets EXCEPT ![ws].state = "closing"]
  /\ connection' = "error"
  /\ ev' = [op |-> "error"]
  /\ UNCHANGED <<props, effect, effects, candles, historyLoading, error,
                 nextRetrySec, lastUpdated, wsRef, reconnectTimerRef,
                 historyAbortRef, requestIdRef, fetches, timers, reconnects,
                 failures, chart>>

\* the backoff without its cap at 30 seconds
reconnectDelay_Uncapped(attempts) == 1000 * 2 ^ Min(attempts, 5)

\* Math.min(30000, 1000 * 2 ** Math.min(attempts, 5))
reconnectDelay(attempts) == Min(30000, 1000 * 2 ^ Min(attempts, 5))

\* Math.round(delay / 1000) for a whole number of milliseconds
RoundSec(delay) == (delay + 500) \div 1000

\* ws.onclose giving up after three attempts in a row
SocketClose_GivesUp(ws) ==
  /\ ws \in DOMAIN sockets
  /\ LET e == sockets[ws].effect
         schedules == ~effects[e].cancelled /\ effects[e].attempts < 3
         attempts == effects[e].attempts + 1
         delay == reconnectDelay(attempts)
     IN /\ sockets' = Without(sockets, ws)
        /\ effects' = IF schedules THEN [effects EXCEPT ![e].attempts = attempts]
                      ELSE effects
        /\ connection' = IF schedules THEN "offline" ELSE connection
        /\ nextRetrySec' = IF schedules THEN RoundSec(delay) ELSE nextRetrySec
        /\ timers' = IF schedules
                       THEN With(timers, Fresh(Refs),
                                 [effect |-> e, delay |-> delay])
                     ELSE timers
        /\ reconnectTimerRef' = IF schedules THEN Fresh(Refs)
                                ELSE reconnectTimerRef
        /\ ev' = [op |-> "close", scheduled |-> schedules]
  /\ failures' = failures + 1
  /\ UNCHANGED <<props, effect, candles, historyLoading, error, lastUpdated,
                 wsRef, historyAbortRef, requestIdRef, fetches, reconnects,
                 chart>>

\* ws.onclose scheduling the reconnect without setConnection('offline')
SocketClose_StaysOnline(ws) ==
  /\ ws \in DOMAIN sockets
  /\ LET e == sockets[ws].effect
         schedules == ~effects[e].cancelled
         attempts == effects[e].attempts + 1
         delay == reconnectDelay(attempts)
     IN /\ sockets' = Without(sockets, ws)
        /\ effects' = IF schedules THEN [effects EXCEPT ![e].attempts = attempts]
                      ELSE effects
        /\ connection' = connection
        /\ nextRetrySec' = IF schedules THEN RoundSec(delay) ELSE nextRetrySec
        /\ timers' = IF schedules
                       THEN With(timers, Fresh(Refs),
                                 [effect |-> e, delay |-> delay])
                     ELSE timers
        /\ reconnectTimerRef' = IF schedules THEN Fresh(Refs)
                                ELSE reconnectTimerRef
        /\ ev' = [op |-> "close", scheduled |-> schedules]
  /\ failures' = failures + 1
  /\ UNCHANGED <<props, effect, candles, historyLoading, error, lastUpdated,
                 wsRef, historyAbortRef, requestIdRef, fetches, reconnects,
                 chart>>

\* ws.onclose: scheduleReconnect()
SocketClose(ws) ==
  /\ ws \in DOMAIN sockets
  /\ LET e == sockets[ws].effect
         schedules == ~effects[e].cancelled
         attempts == effects[e].attempts + 1
         delay == reconnectDelay(attempts)
     IN /\ sockets' = Without(sockets, ws)
        /\ effects' = IF schedules THEN [effects EXCEPT ![e].attempts = attempts]
                      ELSE effects
        /\ connection' = IF schedules THEN "offline" ELSE connection
        /\ nextRetrySec' = IF schedules THEN RoundSec(delay) ELSE nextRetrySec
        /\ timers' = IF schedules
                       THEN With(timers, Fresh(Refs),
                                 [effect |-> e, delay |-> delay])
                     ELSE timers
        /\ reconnectTimerRef' = IF schedules THEN Fresh(Refs)
                                ELSE reconnectTimerRef
        /\ ev' = [op |-> "close", scheduled |-> schedules]
  /\ failures' = failures + 1
  /\ UNCHANGED <<props, effect, candles, historyLoading, error, lastUpdated,
                 wsRef, historyAbortRef, requestIdRef, fetches, reconnects,
                 chart>>

\* a reconnect timer fires: connect(); at most `limit` timers are let fire
Reconnect(t, limit) ==
  /\ t \in DOMAIN timers
  /\ reconnects < limit
  /\ reconnects' = reconnects + 1
  /\ LET e == timers[t].effect
         connects == ~effects[e].cancelled
         R0 == [Refs EXCEPT !.timers = Without(timers, t)]
     IN /\ SetRefs(IF connects THEN connectCall(R0, e) ELSE R0)
        /\ connection' = IF connects THEN "connecting" ELSE connection
        /\ ev' = [op |-> "timer", connected |-> connects]
  /\ UNCHANGED <<props, effect, effects, candles, historyLoading, error,
                 nextRetrySec, lastUpdated, failures, chart>>

\* a reconnect that starts from an empty Series
TimerFire_ClearsSeries(t) ==
  /\ t \in DOMAIN timers
  /\ reconnects < MaxReconnects
  /\ reconnects' = reconnects + 1
  /\ LET e == timers[t].effect
         connects == ~effects[e].cancelled
         R0 == [Refs EXCEPT !.timers = Without(timers, t)]
     IN /\ SetRefs(IF connects THEN connectCall(R0, e) ELSE R0)
        /\ connection' = IF connects THEN "connecting" ELSE connection
        /\ ev' = [op |-> "timer", connected |-> connects]
  /\ candles' = <<>>
  /\ UNCHANGED <<props, effect, effects, historyLoading, error,
                 nextRetrySec, lastUpdated, failures, chart>>

TimerFire(t) == Reconnect(t, MaxReconnects)

(***************************************************************************)
(* The component unmounts: React runs the cleanup of the last effect run.  *)
(***************************************************************************)
\* return () => { cancelled = true; cleanup(); setNextRetrySec(null) }
Unmount ==
  /\ mounted
  /\ SetRefs(cleanup(Refs))
  /\ effects' = [effects EXCEPT ![effect].cancelled = TRUE]
  /\ nextRetrySec' = NULL
  /\ ev' = [op |-> "unmount", released |-> Held(Refs)]
  /\ UNCHANGED <<props, effect, candles, historyLoading, error, connection,
                 lastUpdated, reconnects, failures, chart>>

Next ==
  \/ \E p \in PropsSet : ChangeConfig(p)
  \/ RefreshHistory
  \/ \E id \in DOMAIN fetches : \E outcome \in {"ok", "HttpError", "AbortError"} :
       \E market \in Markets : FetchSettle(id, outcome, market)
  \/ \E ws \in DOMAIN sockets : SocketOpen(ws)
  \/ \E ws \in DOMAIN sockets :
       \E msg \in Messages(effects[sockets[ws].effect].args.interval) :
         SocketMessage(ws, msg)
  \/ \E ws \in DOMAIN sockets : SocketError(ws)
  \/ \E ws \in DOMAIN sockets : SocketClose(ws)
  \/ \E t \in DOMAIN timers : TimerFire(t)
  \/ Unmount

Spec == Init /\ [][Next]_vars

(***************************************************************************)
(* The merge rule on its own: the Series, the cap and the incoming bar are *)
(* drawn from every value within the bounds, and each step applies the     *)
(* updater of applyIncomingCandle once.                                    *)
(***************************************************************************)
\* the bars a connection of the 1m interval can deliver
MergeBars ==
  {Tag(toCandle(<<t, p, p, p, p>>), 0, "live") :
     t \in {n * IntervalMs("1m") : n \in 1..MaxSlot} \cup {NULL},
     p \in {"1", "2"}}

Ascending(arr) ==
  \A i \in 1..(Len(arr) - 1) :
    /\ arr[i].time # NaN
    /\ arr[i + 1].time # NaN
    /\ arr[i].time < arr[i + 1].time

\* every Series the hook can hold: ascending times, or one bar without time
MergeSeries ==
  {arr \in UNION {[1..n -> MergeBars] : n \in 0..MaxSlot} : Ascending(arr)}

MergeProps ==
  {[symbol |-> "BTCUSDT", interval |-> "1m",
    historyPreset |-> [label |-> "Last minutes", minutes |-> n]] :
     n \in 1..MaxSlot}

InitMerge ==
  /\ props \in MergeProps
  /\ candles \in MergeSeries
  /\ ev = [op |-> "input"]
  /\ effect = 0
  /\ effects = [e \in {0} |-> Closure(props)]
  /\ historyLoading = FALSE
  /\ error = "null"
  /\ connection = "online"
  /\ nextRetrySec = NULL
  /\ lastUpdated = [by |-> "history"]
  /\ wsRef = 1
  /\ reconnectTimerRef = NULL
  /\ historyAbortRef = 1
  /\ requestIdRef = 1
  /\ fetches = EmptyFn
  /\ sockets = [ws \in {1} |->
                  [state |-> "open", effect |-> 0]]
  /\ timers = EmptyFn
  /\ reconnects = 0
  /\ failures = 0
  /\ chart = NoChart

MergeStep(bar) ==
  /\ candles' = applyIncomingCandle(candles, bar, cap(props))
  /\ ev' = [op |-> "merge", prev |-> candles, bar |-> bar]
  /\ UNCHANGED <<props, effect, effects, historyLoading, error, connection,
                 nextRetrySec, lastUpdated, wsRef, reconnectTimerRef,
                 historyAbortRef, requestIdRef, fetches, sockets, timers,
                 reconnects, failures, chart>>

NextMerge == \E bar \in MergeBars : MergeStep(bar)

SpecMerge == InitMerge /\ [][NextMerge]_vars

(***************************************************************************)
(* The connection of one session on its own: history has been applied and  *)
(* bootstrap() has called connect(); from there the connection opens,      *)
(* fails and closes, and the reconnect timers fire.  A timer that          *)
(* setTimeout has started fires unless clearTimeout stops it, hence the    *)
(* weak fairness of the timer step.                                        *)
(***************************************************************************)
InitReconnect ==
  /\ props = InitialProps
  /\ effect = 0
  /\ effects = [e \in {0} |-> Closure(InitialProps)]
  /\ candles = Loaded([sym |-> InitialProps.symbol,
                       intv |-> InitialProps.interval,
                       preset |-> InitialProps.historyPreset, effect |-> 0],
                      [lo |-> 1, hi |-> MaxSlot])
  /\ historyLoading = FALSE
  /\ error = "null"
  /\ connection = "connecting"
  /\ nextRetrySec = NULL
  /\ lastUpdated = [by |-> "history"]
  /\ wsRef = 1
  /\ reconnectTimerRef = NULL
  /\ historyAbortRef = 1
  /\ requestIdRef = 1
  /\ fetches = EmptyFn
  /\ sockets = [ws \in {1} |-> [state |-> "connecting", effect |-> 0]]
  /\ timers = EmptyFn
  /\ reconnects = 0
  /\ failures = 0
  /\ chart = NoChart
  /\ ev = [op |-> "settle", id |-> 1, outcome |-> "ok", effect |-> 0,
           connected |-> TRUE, args |-> InitialProps]

ReconnectTimerFire(t) == Reconnect(t, MaxFailures)

NextReconnect ==
  \/ \E ws \in DOMAIN sockets : SocketOpen(ws)
  \/ \E ws \in DOMAIN sockets : SocketError(ws)
  \/ \E ws \in DOMAIN sockets : SocketClose(ws)
  \/ \E t \in DOMAIN timers : ReconnectTimerFire(t)

SpecReconnect ==
  /\ InitReconnect
  /\ [][NextReconnect]_vars
  /\ WF_vars(\E t \in DOMAIN timers : ReconnectTimerFire(t))

(***************************************************************************)
(* One call of loadHistory followed request by request.  The call has been *)
(* made by the bootstrap of the first effect run (empty Series), or by     *)
(* refreshHistory once a history had been applied and connect() called;    *)
(* the provider then answers the page requests from what it holds, one     *)
(* request possibly with a non-success status.                             *)
(***************************************************************************)
\* the intervals and ranges followed; "2m" is not a key of intervalToMinutes
FetchIntervals == {"1m", "5m", "2m"}

FetchPresets ==
  {[label |-> "Last minutes", minutes |-> n] : n \in 1..(MaxSlot + 2)}
  \cup {[label |-> "Last 7 minutes", minutes |-> 7],
        [label |-> "Max available", minutes |-> Infinity]}

FetchProps ==
  [symbol : {"BTCUSDT"}, interval : FetchIntervals, historyPreset : FetchPresets]

\* the request in flight of a loadHistory call
Request(p, e, caller) ==
  [sym |-> p.symbol, intv |-> p.interval, preset |-> p.historyPreset,
   aborted |-> FALSE, effect |-> e, caller |-> caller]

InitFetch ==
  /\ props \in FetchProps
  /\ effect = 0
  /\ effects = [e \in {0} |-> Closure(props)]
  /\ error = "null"
  /\ historyLoading = TRUE
  /\ connection = "connecting"
  /\ nextRetrySec = NULL
  /\ reconnectTimerRef = NULL
  /\ timers = EmptyFn
  /\ reconnects = 0
  /\ failures = 0
  /\ chart = NoChart
  /\ \/ /\ candles = <<>>
        /\ lastUpdated = [by |-> "nobody"]
        /\ requestIdRef = 1
        /\ historyAbortRef = 1
        /\ fetches = [id \in {1} |-> Request(props, 0, "bootstrap")]
        /\ wsRef = NULL
        /\ sockets = EmptyFn
        /\ ev = [op |-> "mount"]
     \/ /\ candles = Loaded(Request(props, 0, "bootstrap"),
                            [lo |-> 1, hi |-> MaxSlot])
        /\ lastUpdated = [by |-> "history"]
        /\ requestIdRef = 2
        /\ historyAbortRef = 2
        /\ fetches = [id \in {2} |-> Request(props, 0, "refresh")]
        /\ wsRef = 1
        /\ sockets = [ws \in {1} |-> [state |-> "connecting", effect |-> 0]]
        /\ ev = [op |-> "refresh"]

\* the page requests of fetch id are answered and loadHistory runs to its
\* end; Date.now() at the call was the open of the provider's newest bar
FetchPages(id, market, failAt) ==
  /\ id \in DOMAIN fetches
  /\ LET f == fetches[id]
         run == fetchHistoricalRun(market, f.sym, f.intv, f.preset,
                                   market.hi * IntervalMs(f.intv), failAt)
     IN LoadHistoryEnd(id, run.status,
                       [i \in 1..Len(run.candles) |->
                          Tag(run.candles[i], f.effect, "history")],
                       [op |-> "pages", id |-> id, outcome |-> run.status,
                        urls |-> run.urls, target |-> run.target,
                        market |-> market, failAt |-> failAt,
                        before |-> candles,
                        connected |-> BootstrapConnects(id)])

\* what the provider can hold here: up to two bars more than a Series of
\* MaxSlot bars, so that a fetch can need a third page
FetchMarkets ==
  {m \in [lo : 1..(MaxSlot + 3), hi : 1..(MaxSlot + 2)] : m.lo <= m.hi + 1}

NextFetch ==
  \E id \in DOMAIN fetches : \E market \in FetchMarkets :
    \E failAt \in 0..MaxPage :
      FetchPages(id, market, failAt)

SpecFetch == InitFetch /\ [][NextFetch]_vars

(***************************************************************************)
(* The component PriceChart, which App renders with the Series and the     *)
(* symbol: its tracking refs, and the data its candlestick series          *)
(* displays.  After every render whose props changed React runs the        *)
(* symbol effect and then the data effect, in that order.                  *)
(***************************************************************************)
\* the refs after the first render (candles = [], seriesRef set by the
\* initialization effect): the symbol effect has stored the symbol, the data
\* effect has returned at candles.length === 0
ChartMounted(symbol) ==
  [mounted |-> TRUE, hydrated |-> FALSE, prevSymbol |-> symbol,
   prevLength |-> 0, prevFirstTime |-> NULL, prevLastTime |-> NULL,
   data |-> <<>>]

\* the reset decision without the test of a growth by more than one
isReset_NoGrowthTest(hydrated, prevLen, prevFirstTime, prevLastTime, arr) ==
  LET firstTime == arr[1].time
      lastTime == arr[Len(arr)].time
  IN \/ ~hydrated
     \/ prevLen = 0
     \/ prevFirstTime = NULL
     \/ prevLastTime = NULL
     \/ ~JsEq(firstTime, prevFirstTime)
     \/ JsLt(lastTime, prevLastTime)
     \/ Len(arr) < prevLen - 1

\* const isReset = ...  for candles.length > 0
isReset(hydrated, prevLen, prevFirstTime, prevLastTime, arr) ==
  LET firstTime == arr[1].time
      lastTime == arr[Len(arr)].time
  IN \/ ~hydrated
     \/ prevLen = 0
     \/ prevFirstTime = NULL
     \/ prevLastTime = NULL
     \/ ~JsEq(firstTime, prevFirstTime)
     \/ JsLt(lastTime, prevLastTime)
     \/ Len(arr) < prevLen - 1
     \/ Len(arr) - prevLen > 1

\* series.update(bar) of the chart library: a bar newer than the last one is
\* appended, a bar of the last one's time replaces it; an older bar makes
\* the library throw and the data stays
SeriesUpdate(data, bar) ==
  IF Len(data) = 0 \/ JsGt(bar.time, data[Len(data)].time)
    THEN Append(data, bar)
  ELSE IF JsEq(bar.time, data[Len(data)].time)
    THEN Append(DropLast(data), bar)
  ELSE data

\* what the data effect decides for the Series arr
Decision(c, arr) ==
  IF Len(arr) = 0 THEN "none"
  ELSE IF isReset(c.hydrated, c.prevLength, c.prevFirstTime, c.prevLastTime,
                  arr)
    THEN "reset"
  ELSE "incrementalUpdate"

\* the data effect, useEffect(..., [candles])
DataEffect(c, arr) ==
  IF Len(arr) = 0 THEN c
  ELSE IF Decision(c, arr) = "reset"
    THEN [c EXCEPT !.data = arr, !.hydrated = TRUE,
                   !.prevLength = Len(arr), !.prevFirstTime = arr[1].time,
                   !.prevLastTime = arr[Len(arr)].time]
  ELSE [c EXCEPT !.data = SeriesUpdate(c.data, arr[Len(arr)]),
                 !.prevLength = Len(arr), !.prevFirstTime = arr[1].time,
                 !.prevLastTime = arr[Len(arr)].time]

\* the symbol effect, useEffect(..., [symbol]); prevSymbolRef is not null
\* once the component has mounted
SymbolEffect(c, symbol) ==
  IF c.prevSymbol # symbol
    THEN [c EXCEPT !.data = <<>>, !.hydrated = FALSE, !.prevLength = 0,
                   !.prevFirstTime = NULL, !.prevLastTime = NULL,
                   !.prevSymbol = symbol]
  ELSE c

\* the configurations followed here: a symbol with two ranges, and another
\* symbol
ChartProps ==
  {[symbol |-> "BTCUSDT", interval |-> "1m",
    historyPreset |-> [label |-> "Last minutes", minutes |-> MaxSlot]],
   [symbol |-> "BTCUSDT", interval |-> "1m",
    historyPreset |-> [label |-> "Last 2 minutes", minutes |-> 2]],
   [symbol |-> "ETHUSDT", interval |-> "1m",
    historyPreset |-> [label |-> "Last minutes", minutes |-> MaxSlot]]}

InitChart ==
  /\ props \in ChartProps
  /\ effect = 0
  /\ effects = [e \in {0} |-> Closure(props)]
  /\ candles = <<>>
  /\ historyLoading = TRUE
  /\ error = "null"
  /\ connection = "connecting"
  /\ nextRetrySec = NULL
  /\ lastUpdated = [by |-> "nobody"]
  /\ wsRef = NULL
  /\ reconnectTimerRef = NULL
  /\ historyAbortRef = 1
  /\ requestIdRef = 1
  /\ fetches = [id \in {1} |-> Request(props, 0, "bootstrap")]
  /\ sockets = EmptyFn
  /\ timers = EmptyFn
  /\ reconnects = 0
  /\ failures = 0
  /\ chart = ChartMounted(props.symbol)
  /\ ev = [op |-> "mount"]

\* what the refs hold before a render, for the properties
Tracked(c) ==
  [hydrated |-> c.hydrated, prevLength |-> c.prevLength,
   prevFirstTime |-> c.prevFirstTime, prevLastTime |-> c.prevLastTime]

\* the hook's other state is not followed here
ChartFrame ==
  UNCHANGED <<effect, effects, historyLoading, error, connection,
              nextRetrySec, lastUpdated, wsRef, reconnectTimerRef,
              historyAbortRef, requestIdRef, fetches, sockets, timers,
              reconnects, failures>>

\* the hook merges a live bar; setCandles gets a new array unless the bar
\* is stale, and only a new array makes the data effect run
ChartLive(bar) ==
  /\ LET merged == applyIncomingCandle(candles, bar, cap(props))
         renders == MergeBranch(candles, bar) # "stale"
     IN /\ candles' = merged
        /\ chart' = IF renders THEN DataEffect(chart, merged) ELSE chart
        /\ ev' = [op |-> "render", how |-> "live",
                  branch |-> MergeBranch(candles, bar),
                  decision |-> IF renders THEN Decision(chart, merged)
                               ELSE "none",
                  prev |-> Tracked(chart), before |-> candles]
  /\ UNCHANGED props
  /\ ChartFrame

\* the hook applies a history result: setCandles(candlesLoaded)
ChartHistory(market) ==
  /\ LET loaded == Loaded(Request(props, 0, "bootstrap"), market)
     IN /\ candles' = loaded
        /\ chart' = DataEffect(chart, loaded)
        /\ ev' = [op |-> "render", how |-> "history", branch |-> "none",
                  decision |-> Decision(chart, loaded),
                  prev |-> Tracked(chart), before |-> candles]
  /\ UNCHANGED props
  /\ ChartFrame

\* the configuration changes: the symbol effect runs for the new symbol,
\* and the hook's bootstrap empties the Series
ChartConfig(p) ==
  /\ p # props
  /\ props' = p
  /\ candles' = <<>>
  /\ chart' = DataEffect(SymbolEffect(chart, p.symbol), <<>>)
  /\ ev' = [op |-> "render", how |-> "config", branch |-> "none",
            decision |-> "none", prev |-> Tracked(chart),
            before |-> candles]
  /\ ChartFrame

NextChart ==
  \/ \E bar \in {b \in MergeBars : b.time # NaN} : ChartLive(bar)
  \/ \E market \in Markets : ChartHistory(market)
  \/ \E p \in ChartProps : ChartConfig(p)

SpecChart == InitChart /\ [][NextChart]_vars

(***************************************************************************)
(* The range calculator on its own: the range and the interval are drawn   *)
(* from the values below, the hook being in its state before the first     *)
(* effect run, and the step applies maxCandlesForPreset.                   *)
(***************************************************************************)
\* the hook before its first effect run: the useState and useRef initial
\* values
HookUnused ==
  /\ effect = 0
  /\ effects = [e \in {0} |-> Closure(props)]
  /\ candles = <<>>
  /\ historyLoading = FALSE
  /\ error = "null"
  /\ connection = "idle"
  /\ nextRetrySec = NULL
  /\ lastUpdated = [by |-> "nobody"]
  /\ wsRef = NULL
  /\ reconnectTimerRef = NULL
  /\ historyAbortRef = NULL
  /\ requestIdRef = 0
  /\ fetches = EmptyFn
  /\ sockets = EmptyFn
  /\ timers = EmptyFn
  /\ reconnects = 0
  /\ failures = 0
  /\ chart = NoChart

HookFrame ==
  UNCHANGED <<props, effect, effects, candles, historyLoading, error,
              connection, nextRetrySec, lastUpdated, wsRef,
              reconnectTimerRef, historyAbortRef, requestIdRef, fetches,
              sockets, timers, reconnects, failures, chart>>

\* the six keys of intervalToMinutes and a string that is not a key
RangeIntervals == {"1m", "5m", "15m", "1h", "4h", "1d", "2m"}

\* depths in minutes: the presets of the application, and values around
\* the interval lengths and around MAX_CANDLES_CAP bars
RangeMinutes ==
  {1, 2, 4, 5, 6, 15, 16, 59, 60, 61, 500, 1440, 1441, 10080, 43200, 49999,
   50000, 50001, 129600, 249996, 250000, 250001, 259200, 525600, 72000000,
   72000001, Infinity}

RangeProps ==
  {[symbol |-> "BTCUSDT", interval |-> i,
    historyPreset |-> [label |-> "Range", minutes |-> m]] :
     i \in RangeIntervals, m \in RangeMinutes}

InitRange ==
  /\ props \in RangeProps
  /\ ev = [op |-> "input"]
  /\ HookUnused

RangeStep ==
  /\ ev.op = "input"
  /\ ev' = [op |-> "range",
            target |-> maxCandlesForPreset(props.historyPreset, props.interval),
            needed |-> candlesNeededForPreset(props.historyPreset,
                                              props.interval),
            capped |-> isPresetCapped(props.historyPreset, props.interval)]
  /\ HookFrame

NextRange == RangeStep

SpecRange == InitRange /\ [][NextRange]_vars

(***************************************************************************)
(* The bar transformer on its own: a page of raw records is drawn from the *)
(* values below and the step maps toCandle over it, as fetchHistorical     *)
(* does with the payload of a page.                                        *)
(***************************************************************************)
\* open times in milliseconds, whole seconds and not, and a missing one
RawTimes == {NULL, 1, 999, 1000, 1500, 60000, 60500, 119999, 120000}

\* price fields: two numbers as strings, and a string that is not a number
RawPrices == {"1", "2", "abc"}

RawRows ==
  {<<t, o, h, l, c>> : t \in RawTimes, o \in RawPrices, h \in RawPrices,
                       l \in RawPrices, c \in RawPrices}

\* pages of one record, and pages of two well-formed records in either
\* order of time
RawPayloads ==
  {<<row>> : row \in RawRows}
  \cup {<<<<t1, "1", "1", "1", "1">>, <<t2, "2", "2", "2", "2">>>> :
          t1 \in RawTimes \ {NULL}, t2 \in RawTimes \ {NULL}}

InitTransform ==
  /\ props = InitialProps
  /\ ev \in {[op |-> "input", payload |-> payload] : payload \in RawPayloads}
  /\ HookUnused

\* const chunk = payload.map((row) => toCandle(row))
TransformStep ==
  /\ ev.op = "input"
  /\ ev' = [op |-> "toCandle", payload |-> ev.payload,
            chunk |-> [i \in 1..Len(ev.payload) |-> toCandle(ev.payload[i])]]
  /\ HookFrame

NextTransform == TransformStep

SpecTransform == InitTransform /\ [][NextTransform]_vars

(***************************************************************************)
(* fetchHistorical on its own: the call is drawn with its interval, range, *)
(* Date.now() and what the provider holds, and the step runs the page      *)
(* requests to the end, every request succeeding.                          *)
(***************************************************************************)
HistoryPresets ==
  {[label |-> "Last minutes", minutes |-> n] : n \in 1..(MaxSlot + 2)}
  \cup {[label |-> "Max available", minutes |-> Infinity]}

HistoryProps ==
  [symbol : {"BTCUSDT"}, interval : {"1m", "5m"}, historyPreset : HistoryPresets]

\* the provider holds the bars of slots lo..hi (none when lo = hi + 1),
\* opening on the multiples of the interval or 1 ms after them
HistoryMarkets ==
  {m \in [lo : 0..(MaxSlot + 2), hi : 0..(MaxSlot + 1), shift : {0, 1}] :
     m.lo <= m.hi + 1}

\* the calls followed; Date.now() at the call is the open of the provider's
\* newest bar, half a minute later, or two minutes later when the provider
\* has stopped publishing (late).  With an unbounded range and a bar that opens at
\* 1 ms the loop runs until MAX_CANDLES_CAP bars are collected; that call
\* is left out.
HistoryCalls ==
  {c \in [props : HistoryProps, market : HistoryMarkets,
          late : {0, 30000, 120000}] :
     ~(/\ ~isFinite(c.props.historyPreset.minutes)
       /\ c.market.shift = 1 /\ c.market.lo = 0)}

InitHistory ==
  /\ \E c \in HistoryCalls :
       /\ props = c.props
       /\ ev = [op |-> "call", market |-> c.market,
                now |-> c.market.hi * IntervalMs(c.props.interval)
                          + c.market.shift + c.late]
  /\ HookUnused

HistoryStep ==
  /\ ev.op = "call"
  /\ LET run == fetchHistoricalRun(ev.market, props.symbol, props.interval,
                                   props.historyPreset, ev.now, 0)
     IN ev' = [op |-> "fetchHistorical", market |-> ev.market,
               now |-> ev.now, status |-> run.status, urls |-> run.urls,
               target |-> run.target, candles |-> run.candles]
  /\ HookFrame

NextHistory == HistoryStep

SpecHistory == InitHistory /\ [][NextHistory]_vars

(***************************************************************************)
(* Properties.                                                             *)
(***************************************************************************)
Last(arr) == arr[Len(arr)]

IsNumber(x) == x # NaN

\* C1. Merge rule: a bar that is newer than the last one, or that meets an
\* empty Series, is appended and the result cut from the front to at most
\* cap bars; a bar of the last bar's time replaces the last bar only, the
\* length and all earlier bars staying as they were.
MergeRule ==
  ev.op = "merge" =>
    LET S == ev.prev
        b == ev.bar
        appended == Append(S, b)
        n == Min(Len(S) + 1, cap(props))
    IN /\ (Len(S) = 0
            \/ (IsNumber(b.time) /\ IsNumber(Last(S).time)
                /\ b.time > Last(S).time))
          => /\ Len(candles) = n
             /\ \A i \in 1..n : candles[i] = appended[Len(appended) - n + i]
       /\ (Len(S) > 0 /\ IsNumber(b.time) /\ b.time = Last(S).time)
          => /\ Len(candles) = Len(S)
             /\ Last(candles) = b
             /\ \A i \in 1..(Len(S) - 1) : candles[i] = S[i]

\* a newer bar has been appended to a Series at its cap, and the oldest bar
\* was dropped
MergeRuleWitness ==
  /\ ev.op = "merge"
  /\ Len(ev.prev) = cap(props)
  /\ Len(ev.prev) >= 2
  /\ ev.bar.time # NaN
  /\ ev.bar.time > Last(ev.prev).time
  /\ Len(candles) = cap(props)
  /\ candles[1] = ev.prev[2]

\* C2. Stale discard: a bar older than the last bar of a non-empty Series
\* leaves the Series exactly as it was.
StaleDiscard ==
  (/\ ev.op = "merge"
   /\ Len(ev.prev) > 0
   /\ IsNumber(ev.bar.time)
   /\ IsNumber(Last(ev.prev).time)
   /\ ev.bar.time < Last(ev.prev).time)
  => candles = ev.prev

\* a bar older than the last one, of a time the Series does not hold, has
\* been merged
StaleDiscardWitness ==
  /\ ev.op = "merge"
  /\ Len(ev.prev) = 2
  /\ IsNumber(ev.bar.time)
  /\ ev.bar.time < Last(ev.prev).time
  /\ ev.bar.time > ev.prev[1].time
  /\ candles = ev.prev

\* C3. Idempotent merge: merging the bar that has just been merged again
\* gives the Series that the first merge gave.
IdempotentMerge ==
  ev.op = "merge" =>
    applyIncomingCandle(candles, ev.bar, cap(props)) = candles

\* the first merge changed the Series: an append that dropped the oldest bar
IdempotentMergeWitness ==
  /\ ev.op = "merge"
  /\ candles # ev.prev
  /\ Len(ev.prev) = cap(props)
  /\ Len(candles) = cap(props)
  /\ Last(candles) = ev.bar
  /\ candles[1] # ev.prev[1]

\* C4. Monotonic time: the times of adjacent bars of the Series increase
\* strictly, in every state.
MonotonicTime ==
  \A i \in 1..(Len(candles) - 1) :
    /\ IsNumber(candles[i].time)
    /\ IsNumber(candles[i + 1].time)
    /\ candles[i].time < candles[i + 1].time

\* a history of more than one page (three bars, pages of MAX_PER_REQUEST)
\* has been applied and its last bar updated by the connection
MonotonicTimeWitness ==
  /\ Len(candles) = 3
  /\ candles[1].via = "history"
  /\ candles[2].via = "history"
  /\ candles[3].via = "live"
  /\ ev.op = "message"
  /\ ev.how = "replace"

\* C5. Cap enforcement: after an append by the merge rule the Series holds
\* at most cappedBars(range, interval) bars of the current configuration,
\* and what was dropped was dropped at the old end: the appended bar is the
\* last one.
CapEnforcement ==
  (ev.op = "message" /\ ev.how = "append") =>
    /\ Len(candles) <= maxCandlesForPreset(props.historyPreset, props.interval)
    /\ Last(candles).via = "live"
    /\ ev.trimmed =>
         Len(candles) = maxCandlesForPreset(props.historyPreset, props.interval)

\* an append to a Series at its cap has dropped the oldest bar
CapEnforcementWitness ==
  /\ ev.op = "message"
  /\ ev.how = "append"
  /\ ev.trimmed
  /\ Len(candles) >= 2
  /\ candles[1].via = "history"

\* C6. Epoch discard: when a history fetch settles after the request epoch
\* has advanced past its own, the Series and the last-updated timestamp
\* stay as they are.
EpochDiscard ==
  [][(ev'.op = "settle" /\ ev'.id # requestIdRef)
       => (candles' = candles /\ lastUpdated' = lastUpdated)]_vars

\* a superseded fetch has resolved with candles, and nothing was updated
EpochDiscardWitness ==
  /\ ev.op = "settle"
  /\ ev.id # requestIdRef
  /\ ev.outcome = "ok"
  /\ lastUpdated = [by |-> "nobody"]
  /\ candles = <<>>

\* C7. Last configuration wins: a history result that is applied (to a
\* mounted component) is the one of the current configuration and of the
\* latest request, and a fetch
\* of an earlier configuration never changes the Series, however late it
\* settles.
LastConfigurationWins ==
  /\ [](ev.op = "settle" /\ ev.outcome = "ok" /\ ev.id = requestIdRef
        /\ mounted
          => /\ ev.args = props
             /\ ev.effect = effect
             /\ \A i \in 1..Len(candles) :
                  candles[i].via = "history" /\ candles[i].origin = effect)
  /\ [][(ev'.op = "settle" /\ ev'.effect # effect) => candles' = candles]_vars

\* the fetch of the earlier configuration resolves with candles after the
\* history of the latest configuration has been applied
LastConfigurationWinsWitness ==
  /\ ev.op = "settle"
  /\ ev.effect < effect
  /\ ev.outcome = "ok"
  /\ fetches = EmptyFn
  /\ Len(candles) > 0
  /\ \A i \in 1..Len(candles) : candles[i].origin = effect

\* C8. History before live: connect() is not called while the history
\* fetch of the current epoch is in flight.
HistoryBeforeLive ==
  (ev.op \in {"settle", "timer"} /\ ev.connected)
    => requestIdRef \notin DOMAIN fetches

\* C9. History never overwrites live data: a history result is not applied
\* to a Series that holds a bar merged from the connection.
HistoryNeverOverwritesLive ==
  [][(ev'.op = "settle" /\ ev'.outcome = "ok" /\ ev'.id = requestIdRef)
       => \A i \in 1..Len(candles) : candles[i].via # "live"]_vars

\* C10. Session isolation: a configuration change empties the Series, and
\* the Series never holds a bar that the history fetch or the connection of
\* an earlier effect run delivered.
SessionIsolation ==
  /\ [][ev'.op = "config" => candles' = <<>>]_vars
  /\ [](\A i \in 1..Len(candles) : candles[i].origin = effect)
  /\ [](effects[effect].args = props)

\* after a configuration change, a bar of the new connection has been
\* merged while the fetch of the previous configuration is still in flight
SessionIsolationWitness ==
  /\ effect > 0
  /\ \E id \in DOMAIN fetches : fetches[id].effect < effect
  /\ Len(candles) > 0
  /\ Last(candles).via = "live"
  /\ Last(candles).origin = effect

\* C11. Manual refresh restarts the session: refreshHistory advances the
\* request epoch, aborts the fetch in flight, disposes the connection and
\* the pending reconnect timer, and empties the Series at once.
RefreshRestartsSession ==
  [][ev'.op = "refresh"
       => /\ requestIdRef' = requestIdRef + 1
          /\ \A id \in DOMAIN fetches : fetches'[id].aborted
          /\ sockets' = EmptyFn
          /\ timers' = EmptyFn
          /\ candles' = <<>>]_vars

\* the delays, in seconds, that follow the first six closes in a row
BackoffDelays == <<2, 4, 8, 16, 30, 30>>

\* C12. Backoff sequence: after the k-th close in a row with no connection
\* having opened in between, the reconnect timer is set to
\* min(30, 2^min(k,5)) seconds, that is 2, 4, 8, 16, 30, 30, ..., and the
\* countdown published with the offline state is that number of seconds.
BackoffSequence ==
  ev.op = "close" =>
    LET k == failures
        seconds == Min(30, 2 ^ Min(k, 5))
    IN /\ k >= 1
       /\ k <= 6 => seconds = BackoffDelays[k]
       /\ reconnectTimerRef \in DOMAIN timers
       /\ timers[reconnectTimerRef].delay = 1000 * seconds
       /\ connection = "offline"
       /\ nextRetrySec = seconds

\* the sixth close in a row has set the timer to 30 seconds
BackoffSequenceWitness ==
  /\ ev.op = "close"
  /\ failures = 6
  /\ nextRetrySec = 30
  /\ reconnectTimerRef \in DOMAIN timers
  /\ timers[reconnectTimerRef].delay = 30000

\* C13. Reconnect liveness: as long as the session is not disposed, every
\* close of the connection, whatever the number of closes in a row before
\* it, leaves a reconnect timer pending and is followed, once the timer
\* fires, by a new connection attempt.
ReconnectLiveness ==
  /\ [](ev.op = "close" => reconnectTimerRef \in DOMAIN timers)
  /\ (ev.op = "close" /\ reconnects < MaxFailures)
       ~> (ev.op = "timer" /\ ev.connected /\ wsRef \in DOMAIN sockets)

\* a connection has been attempted again after five closes in a row
ReconnectLivenessWitness ==
  /\ ev.op = "timer"
  /\ ev.connected
  /\ failures = 5
  /\ wsRef \in DOMAIN sockets
  /\ sockets[wsRef].state = "connecting"
  /\ connection = "connecting"

\* C14. Backoff reset on open: when a connection opens, the state becomes
\* online and the attempt counter 0, and the close that follows sets the
\* reconnect timer to 2 seconds, however many closes came before the open.
BackoffReset ==
  /\ [](ev.op = "open"
          => /\ connection = "online"
             /\ nextRetrySec = NULL
             /\ effects[effect].attempts = 0)
  /\ [][(ev'.op = "close" /\ failures = 0)
          => /\ effects'[effect].attempts = 1
             /\ nextRetrySec' = 2
             /\ reconnectTimerRef' \in DOMAIN timers'
             /\ timers'[reconnectTimerRef'].delay = 2000]_vars

\* a connection has opened after four closes in a row
BackoffResetWitness ==
  /\ ev.op = "open"
  /\ ev.after = 4
  /\ connection = "online"
  /\ effects[effect].attempts = 0
  /\ sockets[wsRef].state = "open"

\* C15. No spurious reconnect after dispose: once the effect cleanup has
\* run (configuration change or unmount), no connection of the disposed
\* session has a handler attached and none of its timers is pending, so no
\* event of theirs runs; the bootstrap of the disposed session, when its
\* fetch settles, opens no connection and changes neither the Series nor
\* the ConnectionState; and after unmount nothing changes them at all.
NoSpuriousReconnect ==
  /\ [](\A ws \in DOMAIN sockets : ~effects[sockets[ws].effect].cancelled)
  /\ [](\A t \in DOMAIN timers : ~effects[timers[t].effect].cancelled)
  /\ [][ev'.op \in {"config", "unmount"}
          => /\ \A ws \in DOMAIN sockets : ws \notin DOMAIN sockets'
             /\ \A t \in DOMAIN timers : t \notin DOMAIN timers']_vars
  /\ [][(ev'.op = "settle" /\ effects[ev'.effect].cancelled)
          => /\ ~ev'.connected
             /\ sockets' = sockets
             /\ timers' = timers
             /\ candles' = candles
             /\ connection' = connection]_vars
  /\ [][~mounted
          => /\ sockets' = EmptyFn
             /\ timers' = EmptyFn
             /\ candles' = candles
             /\ connection' = connection]_vars

\* a session has been disposed by unmount while its connection was open,
\* and nothing of it is left
NoSpuriousReconnectWitness ==
  /\ ev.op = "unmount"
  /\ ev.released = {"socket"}
  /\ connection = "online"
  /\ Len(candles) > 0
  /\ sockets = EmptyFn
  /\ timers = EmptyFn

\* C16. Dispose sets the ConnectionState to idle: right after the effect
\* cleanup has disposed the connection, the ConnectionState is idle.
DisposeSetsIdle ==
  ev.op = "unmount" => connection = "idle"

\* C17. Dispose is idempotent: in every state, cleanup() called twice in a
\* row leaves what one call leaves (no connection, no pending timer, no
\* request handle), the second call finding every ref empty and so doing
\* no close, abort or clearTimeout; and the configuration change, which
\* calls it twice (effect cleanup, then bootstrap), ends as with one call.
DisposeIdempotent ==
  /\ [](LET once == cleanup(Refs)
        IN /\ cleanup(once) = once
           /\ once.wsRef = NULL
           /\ once.reconnectTimerRef = NULL
           /\ once.historyAbortRef = NULL
           /\ Held(once) = {})
  /\ [][ev'.op = "config"
          => LET once == loadHistoryCall(cleanup(Refs), effect', "bootstrap",
                                         props'.symbol, props'.interval,
                                         props'.historyPreset)
             IN /\ wsRef' = once.wsRef
                /\ reconnectTimerRef' = once.reconnectTimerRef
                /\ historyAbortRef' = once.historyAbortRef
                /\ requestIdRef' = once.requestIdRef
                /\ fetches' = once.fetches
                /\ sockets' = once.sockets
                /\ timers' = once.timers]_vars

\* a configuration change has called cleanup() twice with a reconnect timer
\* pending at the first call
DisposeIdempotentWitness ==
  /\ ev.op = "config"
  /\ ev.released = {"timer"}
  /\ reconnectTimerRef = NULL
  /\ wsRef = NULL
  /\ timers = EmptyFn
  /\ sockets = EmptyFn

\* C18. One connection at a time: in every state at most one WebSocket has
\* handlers attached, and it is the one wsRef holds; connect() makes a new
\* one only when the one before has closed or has been disposed.
OneConnection ==
  /\ [](Cardinality(DOMAIN sockets) <= 1)
  /\ [](\A ws \in DOMAIN sockets : ws = wsRef)
  /\ [][(ev'.op \in {"settle", "timer"} /\ ev'.connected)
          => /\ sockets = EmptyFn
             /\ DOMAIN sockets' = {wsRef'}
             /\ sockets'[wsRef'].state = "connecting"]_vars

\* in the session of a second configuration, the connection has closed and
\* a timer has made the next one
OneConnectionWitness ==
  /\ ev.op = "timer"
  /\ ev.connected
  /\ effect = 1
  /\ DOMAIN sockets = {wsRef}
  /\ sockets[wsRef].effect = 1

\* C19. No double scheduling: the error handler sets the state to error and
\* closes the connection without touching a timer; the close of a
\* connection adds exactly one reconnect timer; and never is more than one
\* timer pending, the pending one being the one reconnectTimerRef holds.
NoDoubleScheduling ==
  /\ [][ev'.op = "error"
          => /\ connection' = "error"
             /\ sockets'[wsRef].state = "closing"
             /\ timers' = timers
             /\ reconnectTimerRef' = reconnectTimerRef
             /\ effects' = effects]_vars
  /\ [][ev'.op = "close"
          => /\ ev'.scheduled
             /\ Cardinality(DOMAIN timers') = Cardinality(DOMAIN timers) + 1
             /\ sockets' = EmptyFn]_vars
  /\ [](Cardinality(DOMAIN timers) <= 1)
  /\ [](\A t \in DOMAIN timers : t = reconnectTimerRef)

\* the connection made by a reconnect timer has failed: the state is error,
\* the socket is closing and no timer is pending
NoDoubleSchedulingWitness ==
  /\ ev.op = "error"
  /\ reconnects = 1
  /\ connection = "error"
  /\ sockets[wsRef].state = "closing"
  /\ timers = EmptyFn

\* C20. Cached bars survive reconnection: the open, the error and the close
\* of a connection and the firing of a reconnect timer leave the Series as
\* it is; the Series changes only in the step of a live message, of a
\* settled history fetch or of a configuration change.
CachedBarsSurvive ==
  /\ [][ev'.op \in {"open", "error", "close", "timer"}
          => candles' = candles]_vars
  /\ [][candles' # candles
          => ev'.op \in {"message", "settle", "config"}]_vars

\* a timer has made a new connection, and the Series still holds the bars
\* of the history and the bar the connection before had delivered
CachedBarsSurviveWitness ==
  /\ ev.op = "timer"
  /\ ev.connected
  /\ Len(candles) >= 2
  /\ candles[1].via = "history"
  /\ Last(candles).via = "live"

\* C21. Malformed live messages are discarded: a message that is not JSON,
\* that has no record, or whose record has no start time, leaves the Series
\* and the connection as they are.
MalformedDiscarded ==
  [][(ev'.op = "message" /\ ev'.malformed)
       => /\ candles' = candles
          /\ sockets' = sockets
          /\ connection' = connection]_vars

\* the page requests that the fetch noted in ev issues when none fails
RequestsIfNoneFails ==
  fetchHistoricalRun(ev.market, props.symbol, props.interval,
                     props.historyPreset,
                     ev.market.hi * IntervalMs(props.interval), 0).urls

\* C22. Transport failure of a history fetch: when a page request is
\* answered with a non-success status, that request is the last one the
\* fetch issues (the requests are those of the fetch without failure up to
\* the failing one, none issued twice), the error message is set, and the
\* Series is exactly what it was before.
TransportFailure ==
  (ev.op = "pages" /\ ev.outcome = "HttpError") =>
    /\ Len(ev.urls) = ev.failAt
    /\ ev.urls = SubSeq(RequestsIfNoneFails, 1, ev.failAt)
    /\ \A i, j \in 1..Len(ev.urls) : i # j => ev.urls[i] # ev.urls[j]
    /\ error = "Unable to fetch history (500)"
    /\ historyLoading = FALSE
    /\ candles = ev.before

\* the second page request of a refresh has failed, the first page having
\* been collected, and the Series still holds the bars it held
TransportFailureWitness ==
  /\ ev.op = "pages"
  /\ ev.outcome = "HttpError"
  /\ ev.failAt = 2
  /\ Len(ev.urls) = 2
  /\ Len(ev.before) > 0
  /\ candles = ev.before
  /\ error # "null"

ResetDecision ==
  (ev.op = "render" /\ Len(candles) > 0 /\ ev.decision # "none") =>
    LET r == ev.prev
        n == Len(candles)
        reset == \/ ~r.hydrated
                 \/ r.prevLength = 0
                 \/ candles[1].time # r.prevFirstTime
                 \/ Last(candles).time < r.prevLastTime
                 \/ n < r.prevLength - 1
                 \/ n > r.prevLength + 1
    IN /\ ev.decision = "reset" <=> reset
       /\ ev.decision = "incrementalUpdate" <=> ~reset
       /\ ev.decision = "reset" => chart.data = candles

\* one bar appended below the cap: the length grew by one, the first time is
\* the same and the last time greater, and the decision is incrementalUpdate
ResetDecisionWitness ==
  /\ ev.op = "render"
  /\ ev.decision = "incrementalUpdate"
  /\ ev.prev.prevLength >= 2
  /\ Len(candles) = ev.prev.prevLength + 1
  /\ candles[1].time = ev.prev.prevFirstTime
  /\ Last(candles).time > ev.prev.prevLastTime

\* C25. Single live step is incremental: when the chart is hydrated with a
\* non-empty Series and the merge rule changes that Series once (the last
\* bar replaced, or one bar appended, at the cap or below it), the data
\* effect decides incrementalUpdate.
SingleStepIncremental ==
  (/\ ev.op = "render"
   /\ ev.how = "live"
   /\ ev.branch \in {"append", "replace"}
   /\ ev.prev.hydrated
   /\ Len(ev.before) > 0
   /\ ev.prev.prevLength = Len(ev.before)
   /\ ev.prev.prevFirstTime = ev.before[1].time
   /\ ev.prev.prevLastTime = Last(ev.before).time)
  => ev.decision = "incrementalUpdate"

\* the length in minutes of the six intervals, any other interval counting
\* as one minute
IntervalLength ==
  CASE props.interval = "1m" -> 1
    [] props.interval = "5m" -> 5
    [] props.interval = "15m" -> 15
    [] props.interval = "1h" -> 60
    [] props.interval = "4h" -> 240
    [] props.interval = "1d" -> 1440
    [] OTHER -> 1

\* C26. cappedBars: the target bar count of a range and an interval is the
\* least number of bars that cover the depth, ceil(depthMinutes /
\* intervalMinutes), or 50000 if that is more or the depth is unbounded; an
\* interval outside the six known ones counts as one minute; for a positive
\* depth the count is between 1 and 50000.
CappedBars ==
  ev.op = "range" =>
    LET depth == props.historyPreset.minutes
        n == ev.target
    IN /\ n >= 1
       /\ n <= 50000
       /\ depth = Infinity => n = 50000
       /\ depth # Infinity =>
            \/ /\ (n - 1) * IntervalLength < depth
               /\ depth <= n * IntervalLength
            \/ /\ n = 50000
               /\ depth > 50000 * IntervalLength

\* a depth of 180 days at the 5m interval needs 51840 bars and gets 50000
CappedBarsWitness ==
  /\ ev.op = "range"
  /\ props.interval = "5m"
  /\ props.historyPreset.minutes = 259200
  /\ ev.target = 50000

\* C27. Unknown interval is a configuration error: when the interval is not
\* one of the six known ones, loadHistory issues no page request, the error
\* message is set, and no connection is made.
UnknownIntervalRejected ==
  (ev.op = "pages" /\ intervalToMinutes(props.interval) = NULL) =>
    /\ Len(ev.urls) = 0
    /\ error # "null"
    /\ ~ev.connected

\* C28. Bar Transformer time: the bar made from a record has the time
\* floor(openTimeMs / 1000), a whole number of seconds (held here in
\* thousandths of a second), and it stands in the chunk where the record
\* stands in the page.
TransformerFloors ==
  ev.op = "toCandle" =>
    /\ Len(ev.chunk) = Len(ev.payload)
    /\ \A i \in 1..Len(ev.payload) :
         ev.payload[i][1] # NULL =>
           ev.chunk[i].time = (ev.payload[i][1] \div 1000) * 1000

\* C29. Bar Transformer rejects bad records: no bar is made from a record
\* whose open time is missing or one of whose price fields is not a number,
\* so no bar made by the transformer has a time or a price that is NaN.
TransformerRejects ==
  ev.op = "toCandle" =>
    \A i \in 1..Len(ev.chunk) :
      /\ IsNumber(ev.chunk[i].time)
      /\ IsNumber(ev.chunk[i].open)
      /\ IsNumber(ev.chunk[i].high)
      /\ IsNumber(ev.chunk[i].low)
      /\ IsNumber(ev.chunk[i].close)

\* the number of records the provider has returned to the fetch noted in
\* ev before its request number i
RECURSIVE CollectedBefore(_)
CollectedBefore(i) ==
  IF i = 1 THEN 0
  ELSE CollectedBefore(i - 1) + Len(ProviderPage(ev.market, ev.urls[i - 1]))

\* C30. Page size and request count: every page request of a history fetch
\* has limit = min(MAX_PER_REQUEST, target - collected), which is at least
\* 1; the fetch issues at most ceil(target / MAX_PER_REQUEST) requests (the
\* provider returning at most limit records per page), and exactly one when
\* the target is at most MAX_PER_REQUEST.
PageSizes ==
  ev.op = "pages" =>
    /\ \A i \in 1..Len(ev.urls) :
         /\ ev.urls[i].limit =
              Min(MAX_PER_REQUEST, ev.target - CollectedBefore(i))
         /\ ev.urls[i].limit >= 1
         /\ Len(ProviderPage(ev.market, ev.urls[i])) <= ev.urls[i].limit
    /\ Len(ev.urls) <= CeilDiv(ev.target, MAX_PER_REQUEST)
    /\ ev.target <= MAX_PER_REQUEST => Len(ev.urls) = 1

\* a fetch that succeeded has issued more than one request, the last of
\* them for the remainder, fewer than a full page
PageSizesWitness ==
  /\ ev.op = "pages"
  /\ ev.outcome = "ok"
  /\ Len(ev.urls) >= 2
  /\ ev.urls[1].limit = MAX_PER_REQUEST
  /\ ev.urls[Len(ev.urls)].limit < MAX_PER_REQUEST
  /\ ev.urls[Len(ev.urls)].limit = ev.target - CollectedBefore(Len(ev.urls))

\* the page the provider returned to request number i of the fetch in ev
PageOf(i) == ProviderPage(ev.market, ev.urls[i])

\* C31. Pagination cursor: every page request after the first carries the
\* end time (oldest open time of the previous page) - 1, which is less than
\* the end time of the request before it, and the fetch collects no record
\* twice.
PaginationCursor ==
  ev.op = "fetchHistorical" =>
    /\ \A i \in 2..Len(ev.urls) :
         /\ ev.urls[i].endTime # NULL
         /\ ev.urls[i].endTime = PageOf(i - 1)[1][1] - 1
         /\ ev.urls[i].endTime < ev.urls[i - 1].endTime
    /\ \A i, j \in 1..Len(ev.candles) :
         i # j => ev.candles[i].time # ev.candles[j].time

\* the earliest open time wanted by the fetch in ev: now minus the depth
TargetStart == ev.now - props.historyPreset.minutes * 60 * 1000

\* page number i of the fetch in ev ends the pagination: it is empty, or
\* shorter than its limit, or (finite depth) its oldest record opens at or
\* before now minus the depth
PageStops(i) ==
  \/ Len(PageOf(i)) = 0
  \/ Len(PageOf(i)) < ev.urls[i].limit
  \/ /\ isFinite(props.historyPreset.minutes)
     /\ Len(PageOf(i)) > 0
     /\ PageOf(i)[1][1] <= TargetStart

\* C32. Pagination stop conditions: after a page that is empty, shorter
\* than its limit, or (finite depth) reaching back to now minus the depth,
\* the fetch issues no further request; otherwise it issues a further
\* request exactly while fewer than target bars are collected; it returns
\* the bars collected so far.
StopConditions ==
  ev.op = "fetchHistorical" =>
    /\ Len(ev.urls) >= 1
    /\ \A i \in 1..Len(ev.urls) :
         (i = Len(ev.urls)) <=>
           (PageStops(i) \/ ~(CollectedBefore(i + 1) < ev.target))
    /\ Len(ev.candles) = CollectedBefore(Len(ev.urls) + 1)

\* the bars of the pages of the fetch in ev, in the order collected
RECURSIVE CollectedThrough(_)
CollectedThrough(i) ==
  IF i = 0 THEN <<>>
  ELSE CollectedThrough(i - 1)
         \o [k \in 1..Len(PageOf(i)) |-> toCandle(PageOf(i)[k])]

\* how many times the bar c stands in the sequence arr
Occurrences(arr, c) == Cardinality({k \in 1..Len(arr) : arr[k] = c})

\* C33. History post-condition: the sequence a successful fetch returns is
\* ascending by time, oldest first, and holds exactly the transformed
\* records of the pages collected, each as many times as it was collected.
HistorySorted ==
  (ev.op = "fetchHistorical" /\ ev.status = "ok") =>
    LET all == CollectedThrough(Len(ev.urls))
    IN /\ \A k \in 1..(Len(ev.candles) - 1) :
            ev.candles[k].time <= ev.candles[k + 1].time
       /\ Len(ev.candles) = Len(all)
       /\ \A k \in 1..Len(all) :
            Occurrences(ev.candles, all[k]) = Occurrences(all, all[k])

\* two pages of bars were collected, the newest chunk first, and the
\* sequence returned starts with the oldest bar of the second page
HistorySortedWitness ==
  /\ ev.op = "fetchHistorical"
  /\ ev.status = "ok"
  /\ Len(ev.urls) >= 2
  /\ Len(PageOf(2)) > 0
  /\ ev.candles[1] = toCandle(PageOf(2)[1])
  /\ ev.candles[Len(ev.candles)] = toCandle(PageOf(1)[Len(PageOf(1))])
  /\ ev.candles[1].time < toCandle(PageOf(1)[1]).time

\* C34. isCapped: a range is capped exactly when it is unbounded or the
\* bars that cover its depth, ceil(depthMinutes / intervalMinutes), are
\* more than 50000; and it is not capped exactly when cappedBars is that
\* uncapped count.
IsCapped ==
  ev.op = "range" =>
    LET depth == props.historyPreset.minutes
    IN /\ ev.capped <=>
            (depth = Infinity \/ depth > 50000 * IntervalLength)
       /\ depth # Infinity =>
            /\ (ev.needed - 1) * IntervalLength < depth
            /\ depth <= ev.needed * IntervalLength
       /\ ~ev.capped <=> (ev.target = ev.needed)

\* 50001 minutes at the 1m interval need one bar more than the cap: the
\* range is capped and gets 50000 bars
IsCappedWitness ==
  /\ ev.op = "range"
  /\ props.interval = "1m"
  /\ props.historyPreset.minutes = 50001
  /\ ev.needed = 50001
  /\ ev.target = 50000
  /\ ev.capped

\* C35. History respects the cap: the Series never holds more bars than
\* cappedBars(range, interval) of the current configuration, after a
\* history result has replaced it as well as after live appends.
HistoryRespectsCap ==
  Len(candles) <= maxCandlesForPreset(props.historyPreset, props.interval)

\* a history result of exactly the cap has replaced the Series, from a
\* provider holding at least one bar more (the oldest bar returned is not
\* the bar of slot 1)
HistoryRespectsCapWitness ==
  /\ ev.op = "settle"
  /\ ev.outcome = "ok"
  /\ ev.id = requestIdRef
  /\ ev.args = props
  /\ Len(candles) = maxCandlesForPreset(props.historyPreset, props.interval)
  /\ \A i \in 1..Len(candles) : candles[i].via = "history"
  /\ candles[1].time > IntervalMs(props.interval)

\* the bars of a sequence as the chart library sees them
Shown(arr) ==
  [i \in 1..Len(arr) |->
     [time |-> arr[i].time, open |-> arr[i].open, high |-> arr[i].high,
      low |-> arr[i].low, close |-> arr[i].close]]

\* C36. Renderer tracks the Series: after every render of a non-empty
\* Series (configuration change, history result or live merge, one change
\* at a time) the bars the chart's series displays are the bars of the
\* Series.
RendererTracks ==
  (ev.op = "render" /\ Len(candles) > 0) =>
    Shown(chart.data) = Shown(candles)

\* C37. Loading flag: while the component is mounted, historyLoading is
\* true exactly while the history fetch of the current request epoch is in
\* flight; the settling of a superseded fetch leaves the flag as it is, and
\* when the current fetch has settled (resolved, failed or aborted) the
\* flag is false.
LoadingFlag ==
  /\ [](mounted => (historyLoading <=> requestIdRef \in DOMAIN fetches))
  /\ [][(ev'.op = "settle" /\ ev'.id # requestIdRef)
          => historyLoading' = historyLoading]_vars
  /\ [][(ev'.op = "settle" /\ ev'.id = requestIdRef /\ mounted)
          => ~historyLoading']_vars

\* a superseded fetch has settled while the fetch of the current epoch is
\* in flight, and the flag is still true
LoadingFlagWitness ==
  /\ ev.op = "settle"
  /\ ev.id # requestIdRef
  /\ mounted
  /\ requestIdRef \in DOMAIN fetches
  /\ historyLoading

\* C38. Online means connected: whenever the connection state of the
\* mounted component is online, exactly one WebSocket with handlers
\* attached is open, it is the one wsRef holds and it belongs to the
\* current configuration; no reconnect timer is pending and the retry
\* countdown is null.
OnlineMeansConnected ==
  (connection = "online" /\ mounted) =>
    /\ wsRef # NULL
    /\ DOMAIN sockets = {wsRef}
    /\ sockets[wsRef].state = "open"
    /\ sockets[wsRef].effect = effect
    /\ effects[effect].args = props
    /\ timers = EmptyFn
    /\ nextRetrySec = NULL

\* online again after a close and a reconnect, in the session of a second
\* configuration
OnlineMeansConnectedWitness ==
  /\ connection = "online"
  /\ mounted
  /\ ev.op = "open"
  /\ effect = 1
  /\ reconnects >= 1
  /\ sockets[wsRef].state = "open"

====
